---- MODULE Spec2Model ----
(***************************************************************************)
(* A model of Rusty-KAN: the B-spline evaluator, the edge / node / layer   *)
(* forward, backward and update contract, and the network composition.     *)
(*                                                                         *)
(* Scalars (f64 in the source) are exact rationals <<num, den>> in lowest  *)
(* terms with den > 0: the model states the real-number meaning of the     *)
(* arithmetic and does not model IEEE-754 rounding.  Edges live in an      *)
(* arena (a sequence) and nodes name them by index: two nodes naming the   *)
(* same index share one edge, as two clones of one Rc<RefCell<Edge>> do.   *)
(* A panic is recorded as the outcome of the call together with whatever   *)
(* the call had already written when it panicked.                          *)
(***************************************************************************)
EXTENDS Integers, Sequences, FiniteSets, TLC

VARIABLES
    edges,   \* the arena of Edge objects, named by index 1..Len(edges)
    layers,  \* KAN.layers: a sequence of layers, each a sequence of nodes
    hist     \* the calls made so far, oldest first, each with its outcome

vars == <<edges, layers, hist>>

----------------------------------------------------------------------------
(* Rational arithmetic.                                                    *)

Abs(x) == IF x < 0 THEN -x ELSE x

RECURSIVE GCD(_, _)
GCD(a, b) == IF b = 0 THEN a ELSE GCD(b, a % b)

Rat(n, d) ==
    LET s == IF d < 0 THEN -1 ELSE 1
        g == GCD(Abs(n), Abs(d))
    IN  <<(s * n) \div g, (s * d) \div g>>

Zero == <<0, 1>>
One == <<1, 1>>
Two == <<2, 1>>

RNeg(a) == <<-a[1], a[2]>>

RAdd(a, b) ==
    LET g == GCD(a[2], b[2])
    IN  Rat(a[1] * (b[2] \div g) + b[1] * (a[2] \div g), (a[2] \div g) * b[2])

RSub(a, b) == RAdd(a, RNeg(b))

RMul(a, b) ==
    LET g1 == GCD(Abs(a[1]), b[2])
        g2 == GCD(Abs(b[1]), a[2])
    IN  <<(a[1] \div g1) * (b[1] \div g2), (a[2] \div g2) * (b[2] \div g1)>>

RInv(a) == IF a[1] < 0 THEN <<-a[2], -a[1]>> ELSE <<a[2], a[1]>>

RDiv(a, b) == RMul(a, RInv(b))

RLt(a, b) ==
    LET g == GCD(a[2], b[2])
    IN  a[1] * (b[2] \div g) < b[1] * (a[2] \div g)

RLe(a, b) == ~RLt(b, a)

----------------------------------------------------------------------------
(* Vector: a sequence of scalars, indexed from 0 as in the source.         *)

At(v, i) == v[i + 1]

InRange(v, i) == i >= 0 /\ i < Len(v)

Vector_zeros(size) == [k \in 1..size |-> Zero]

Vector_fill(x, size) == [k \in 1..size |-> x]

Vector_mul(v, scalar) == [k \in 1..Len(v) |-> RMul(v[k], scalar)]

Vector_sub(a, b) == [k \in 1..Len(a) |-> RSub(a[k], b[k])]

RECURSIVE Vector_sum(_)
Vector_sum(v) == IF v = <<>> THEN Zero ELSE RAdd(Vector_sum(Tail(v)), Head(v))

----------------------------------------------------------------------------
(* Outcomes of a call: a value and the state it leaves, or a panic.        *)

Panics ==
    {"DomainError", "ShapeMismatch", "IndexOutOfBounds", "InvalidLearningRate",
     "UnwrapNone"}

----------------------------------------------------------------------------
(* BSpline                                                                 *)

\* Mutant of BSpline_new: the knots are spaced by 1 / (n + degree + 1).
BSpline_new_short_knots(control_points, degree) ==
    LET n == Len(control_points)
    IN  [control_points |-> control_points,
         knots |-> [k \in 1..(n + degree + 1) |-> Rat(k - 1, n + degree + 1)],
         degree |-> degree,
         memo |-> <<>>]

\* Mutant of BSpline_new: a clamped knot vector, degree + 1 knots at each end.
BSpline_new_clamped(control_points, degree) ==
    LET n == Len(control_points)
    IN  [control_points |-> control_points,
         knots |-> [k \in 1..(n + degree + 1) |->
                       IF k <= degree + 1 THEN Zero
                       ELSE IF k > n THEN One
                       ELSE Rat(k - degree - 1, n - degree)],
         degree |-> degree,
         memo |-> <<>>]

BSpline_new(control_points, degree) ==
    LET n == Len(control_points)
    IN  [control_points |-> control_points,
         knots |-> [k \in 1..(n + degree + 1) |-> Rat(k - 1, n + degree)],
         degree |-> degree,
         memo |-> <<>>]

\* Mutant of hashmap_key: the parameter is left out of the key.
hashmap_key_without_t(i, degree, t) == <<i, degree, Zero>>

\* Mutant of hashmap_key: the degree is left out of the key.
hashmap_key_without_degree(i, degree, t) == <<i, 0, t>>

\* The memo key is the string "i degree t"; Display of usize and of f64 is
\* injective, so the key is the triple itself.
hashmap_key(i, degree, t) == <<i, degree, t>>

\* Mutant of MemoInsert: the value is stored truncated to a whole number.
MemoInsert_truncated(memo, key, val) ==
    [k \in (DOMAIN memo) \cup {key} |->
        IF k = key THEN <<val[1] \div val[2], 1>> ELSE memo[k]]

MemoInsert(memo, key, val) ==
    [k \in (DOMAIN memo) \cup {key} |-> IF k = key THEN val ELSE memo[k]]

BasisOk(val, memo) == [kind |-> "ok", val |-> val, memo |-> memo]

\* Mutant of BasisPanic: 0.0 is returned in place of the panic.
BasisPanic_returns_zero(kind, memo) == [kind |-> "ok", val |-> Zero, memo |-> memo]

BasisPanic(kind, memo) == [kind |-> kind, val |-> Zero, memo |-> memo]

RECURSIVE BSpline_basis(_, _, _, _, _)
BSpline_basis(knots, memo, i, degree, t) ==
    LET key == hashmap_key(i, degree, t) IN
    IF key \in DOMAIN memo THEN BasisOk(memo[key], memo)
    ELSE IF RLt(t, Zero) \/ RLt(One, t) THEN BasisPanic("DomainError", memo)
    ELSE IF degree = 0 THEN
        IF ~InRange(knots, i) THEN BasisPanic("IndexOutOfBounds", memo)
        ELSE IF ~RLe(At(knots, i), t) THEN BasisOk(Zero, memo)
        ELSE IF ~InRange(knots, i + 1) THEN BasisPanic("IndexOutOfBounds", memo)
        ELSE BasisOk(IF RLt(t, At(knots, i + 1)) THEN One ELSE Zero, memo)
    ELSE IF ~InRange(knots, i + degree) \/ ~InRange(knots, i)
        THEN BasisPanic("IndexOutOfBounds", memo)
    ELSE
        LET lrec == IF At(knots, i + degree) # At(knots, i)
                    THEN BSpline_basis(knots, memo, i, degree - 1, t)
                    ELSE BasisOk(Zero, memo)
            left == IF At(knots, i + degree) # At(knots, i)
                    THEN RMul(RDiv(RSub(t, At(knots, i)),
                                   RSub(At(knots, i + degree), At(knots, i))),
                              lrec.val)
                    ELSE Zero
        IN  IF lrec.kind # "ok" THEN lrec
            ELSE IF ~InRange(knots, i + degree + 1) \/ ~InRange(knots, i + 1)
                THEN BasisPanic("IndexOutOfBounds", lrec.memo)
            ELSE
                LET rrec == IF At(knots, i + degree + 1) # At(knots, i + 1)
                            THEN BSpline_basis(knots, lrec.memo, i + 1, degree - 1, t)
                            ELSE BasisOk(Zero, lrec.memo)
                    right == IF At(knots, i + degree + 1) # At(knots, i + 1)
                             THEN RMul(RDiv(RSub(At(knots, i + degree + 1), t),
                                            RSub(At(knots, i + degree + 1),
                                                 At(knots, i + 1))),
                                       rrec.val)
                             ELSE Zero
                IN  IF rrec.kind # "ok" THEN rrec
                    ELSE BasisOk(RAdd(left, right),
                                 MemoInsert(rrec.memo, key, RAdd(left, right)))

RECURSIVE eval_loop(_, _, _, _, _)
\* Mutant of eval_step: the basis value is not weighted by control point i.
eval_step_unweighted(spline, t, i, result, b) ==
    IF b.kind # "ok" THEN b
    ELSE eval_loop(spline, t, i + 1, RAdd(result, b.val), b.memo)

\* One turn of the loop of eval, b being the outcome of basis(i, degree, t).
eval_step(spline, t, i, result, b) ==
    IF b.kind # "ok" THEN b
    ELSE eval_loop(spline, t, i + 1,
                   RAdd(result, RMul(At(spline.control_points, i), b.val)),
                   b.memo)

eval_loop(spline, t, i, result, memo) ==
    IF i >= Len(spline.control_points) THEN BasisOk(result, memo)
    ELSE eval_step(spline, t, i, result,
                   BSpline_basis(spline.knots, memo, i, spline.degree, t))

\* Mutant of BSpline_eval: the ends of [0, 1] are rejected too.
BSpline_eval_open_interval(spline, t) ==
    IF RLe(t, Zero) \/ RLe(One, t) THEN BasisPanic("DomainError", spline.memo)
    ELSE eval_loop(spline, t, 0, Zero, spline.memo)

BSpline_eval(spline, t) ==
    IF RLt(t, Zero) \/ RLt(One, t) THEN BasisPanic("DomainError", spline.memo)
    ELSE eval_loop(spline, t, 0, Zero, spline.memo)

----------------------------------------------------------------------------
(* Edge                                                                    *)

Edge_new(start, end, spline, layer) ==
    [start |-> start, end |-> end, spline |-> spline, layer |-> layer,
     gradient |-> Vector_zeros(Len(spline.control_points))]

\* silu(x) = x / (1 + e^-x) has no rational value; the logistic factor
\* 1 / (1 + e^-x) is replaced by its piecewise-linear approximation
\* min(1, max(0, (x + 2) / 4)).  Like the source's silu it is a fixed function
\* of x alone, silu(0) = 0 and 0 <= silu(x) <= x on [0, 1].
silu(x) ==
    IF RLe(x, <<-2, 1>>) THEN Zero
    ELSE IF RLe(Two, x) THEN x
    ELSE RMul(x, RDiv(RAdd(x, Two), <<4, 1>>))

EdgeOut(kind, val, edge) == [kind |-> kind, val |-> val, edge |-> edge]

WithMemo(edge, memo) == [edge EXCEPT !.spline.memo = memo]

\* Mutant of forward_sum: the gradient buffer is reset on the way.
forward_sum_clears_gradient(edge, t, r) ==
    IF r.kind # "ok" THEN EdgeOut(r.kind, Zero, WithMemo(edge, r.memo))
    ELSE EdgeOut("ok", RAdd(r.val, silu(t)),
                 [WithMemo(edge, r.memo) EXCEPT
                     !.gradient = Vector_zeros(Len(edge.gradient))])

\* spline.eval(t) + silu(t), r being the outcome of spline.eval(t).
forward_sum(edge, t, r) ==
    IF r.kind # "ok" THEN EdgeOut(r.kind, Zero, WithMemo(edge, r.memo))
    ELSE EdgeOut("ok", RAdd(r.val, silu(t)), WithMemo(edge, r.memo))

Edge_forward(edge, t) == forward_sum(edge, t, BSpline_eval(edge.spline, t))

\* Vec::reverse.
reverse(v) == [k \in 1..Len(v) |-> v[Len(v) + 1 - k]]

RECURSIVE forward_batch_loop(_, _, _)
\* One turn of the map over inputs, r being the outcome of
\* spline.eval(t) + silu(t) for the element t that next() popped.
forward_batch_step(inputs, result, r) ==
    IF r.kind # "ok" THEN EdgeOut(r.kind, <<>>, r.edge)
    ELSE forward_batch_loop(r.edge, SubSeq(inputs, 1, Len(inputs) - 1),
                            Append(result, r.val))

\* Iterator::next of Vector pops the last element: the inputs are consumed
\* from the end and result is collected in that order.
forward_batch_loop(edge, inputs, result) ==
    IF inputs = <<>> THEN EdgeOut("ok", result, edge)
    ELSE forward_batch_step(inputs, result,
             forward_sum(edge, inputs[Len(inputs)],
                         BSpline_eval(edge.spline, inputs[Len(inputs)])))

\* result.reverse(), r being the outcome of the map.
forward_batch_result(r) ==
    IF r.kind # "ok" THEN r ELSE EdgeOut("ok", reverse(r.val), r.edge)

\* Mutant of Edge_forward_batch: result is not reversed.
Edge_forward_batch_unreversed(edge, inputs) ==
    forward_batch_loop(edge, inputs, <<>>)

Edge_forward_batch(edge, inputs) ==
    forward_batch_result(forward_batch_loop(edge, inputs, <<>>))

RECURSIVE backward_loop(_, _, _, _)
\* Mutant of backward_step: the control point is moved along with the
\* gradient entry.
backward_step_moves_control_point(edge, t, upstream_gradient, i, b) ==
    IF b.kind # "ok" THEN EdgeOut(b.kind, Zero, WithMemo(edge, b.memo))
    ELSE IF ~InRange(edge.gradient, i)
        THEN EdgeOut("IndexOutOfBounds", Zero, WithMemo(edge, b.memo))
    ELSE backward_loop(
             [edge EXCEPT !.spline.memo = b.memo,
                          !.gradient[i + 1] = RMul(b.val, upstream_gradient),
                          !.spline.control_points[i + 1] =
                              RSub(@, RMul(b.val, upstream_gradient))],
             t, upstream_gradient, i + 1)

\* One turn of the loop of backward, b being the outcome of basis(i, degree, t).
backward_step(edge, t, upstream_gradient, i, b) ==
    IF b.kind # "ok" THEN EdgeOut(b.kind, Zero, WithMemo(edge, b.memo))
    ELSE IF ~InRange(edge.gradient, i)
        THEN EdgeOut("IndexOutOfBounds", Zero, WithMemo(edge, b.memo))
    ELSE backward_loop(
             [edge EXCEPT !.spline.memo = b.memo,
                          !.gradient[i + 1] = RMul(b.val, upstream_gradient)],
             t, upstream_gradient, i + 1)

backward_loop(edge, t, upstream_gradient, i) ==
    IF i >= Len(edge.spline.control_points) THEN EdgeOut("ok", Zero, edge)
    ELSE backward_step(edge, t, upstream_gradient, i,
                       BSpline_basis(edge.spline.knots, edge.spline.memo, i,
                                     edge.spline.degree, t))

RECURSIVE backward_accumulate_loop(_, _, _, _)
backward_accumulate_step(edge, t, upstream_gradient, i, b) ==
    IF b.kind # "ok" THEN EdgeOut(b.kind, Zero, WithMemo(edge, b.memo))
    ELSE IF ~InRange(edge.gradient, i)
        THEN EdgeOut("IndexOutOfBounds", Zero, WithMemo(edge, b.memo))
    ELSE backward_accumulate_loop(
             [edge EXCEPT !.spline.memo = b.memo,
                          !.gradient[i + 1] = RAdd(@, RMul(b.val, upstream_gradient))],
             t, upstream_gradient, i + 1)

backward_accumulate_loop(edge, t, upstream_gradient, i) ==
    IF i >= Len(edge.spline.control_points) THEN EdgeOut("ok", Zero, edge)
    ELSE backward_accumulate_step(edge, t, upstream_gradient, i,
                       BSpline_basis(edge.spline.knots, edge.spline.memo, i,
                                     edge.spline.degree, t))

\* Mutant of Edge_backward: += in place of =.
Edge_backward_accumulate(edge, t, upstream_gradient) ==
    backward_accumulate_loop(edge, t, upstream_gradient, 0)

\* Mutant of Edge_backward: the gradient is zeroed before the loop.
Edge_backward_clears_first(edge, t, upstream_gradient) ==
    backward_loop([edge EXCEPT !.gradient = Vector_zeros(Len(edge.gradient))],
                  t, upstream_gradient, 0)

Edge_backward(edge, t, upstream_gradient) ==
    backward_loop(edge, t, upstream_gradient, 0)

\* Mutant of Edge_update_weights: the gradient buffer is not reset.
Edge_update_weights_keep_gradient(edge, learning_rate) ==
    IF RLe(learning_rate, Zero) THEN EdgeOut("InvalidLearningRate", Zero, edge)
    ELSE IF Len(edge.spline.control_points) # Len(edge.gradient)
        THEN EdgeOut("ShapeMismatch", Zero, edge)
    ELSE EdgeOut("ok", Zero,
            [edge EXCEPT
                !.spline.control_points =
                    Vector_sub(edge.spline.control_points,
                               Vector_mul(edge.gradient, learning_rate))])

\* Mutant of Edge_update_weights: < in place of <= in the learning-rate check.
Edge_update_weights_zero_rate(edge, learning_rate) ==
    IF RLt(learning_rate, Zero) THEN EdgeOut("InvalidLearningRate", Zero, edge)
    ELSE IF Len(edge.spline.control_points) # Len(edge.gradient)
        THEN EdgeOut("ShapeMismatch", Zero, edge)
    ELSE EdgeOut("ok", Zero,
            [edge EXCEPT
                !.spline.control_points =
                    Vector_sub(edge.spline.control_points,
                               Vector_mul(edge.gradient, learning_rate)),
                !.gradient = Vector_zeros(Len(edge.spline.control_points))])

\* Mutant of Edge_update_weights: the gradient is reset to one entry per knot.
Edge_update_weights_gradient_by_knots(edge, learning_rate) ==
    IF RLe(learning_rate, Zero) THEN EdgeOut("InvalidLearningRate", Zero, edge)
    ELSE IF Len(edge.spline.control_points) # Len(edge.gradient)
        THEN EdgeOut("ShapeMismatch", Zero, edge)
    ELSE EdgeOut("ok", Zero,
            [edge EXCEPT
                !.spline.control_points =
                    Vector_sub(edge.spline.control_points,
                               Vector_mul(edge.gradient, learning_rate)),
                !.gradient = Vector_zeros(Len(edge.spline.knots))])

\* Mutant of Edge_update_weights: the gradient is scaled by the learning rate
\* in place of being reset.
Edge_update_weights_scales_gradient(edge, learning_rate) ==
    IF RLe(learning_rate, Zero) THEN EdgeOut("InvalidLearningRate", Zero, edge)
    ELSE IF Len(edge.spline.control_points) # Len(edge.gradient)
        THEN EdgeOut("ShapeMismatch", Zero, edge)
    ELSE EdgeOut("ok", Zero,
            [edge EXCEPT
                !.spline.control_points =
                    Vector_sub(edge.spline.control_points,
                               Vector_mul(edge.gradient, learning_rate)),
                !.gradient = Vector_mul(edge.gradient, learning_rate)])

Edge_update_weights(edge, learning_rate) ==
    IF RLe(learning_rate, Zero) THEN EdgeOut("InvalidLearningRate", Zero, edge)
    ELSE IF Len(edge.spline.control_points) # Len(edge.gradient)
        THEN EdgeOut("ShapeMismatch", Zero, edge)
    ELSE EdgeOut("ok", Zero,
            [edge EXCEPT
                !.spline.control_points =
                    Vector_sub(edge.spline.control_points,
                               Vector_mul(edge.gradient, learning_rate)),
                !.gradient = Vector_zeros(Len(edge.spline.control_points))])

----------------------------------------------------------------------------
(* Node: incoming and outgoing are sequences of arena indices.             *)

Node_new(incoming_edges, outgoing_edges, layer) ==
    [incoming |-> incoming_edges, outgoing |-> outgoing_edges, layer |-> layer]

\* The outcome of a call on the graph: a value and the arena it leaves.
Out(kind, val, arena) == [kind |-> kind, val |-> val, edges |-> arena]

\* The arena after a call on its edge e had the outcome r.
InArena(arena, e, r) == Out(r.kind, r.val, [arena EXCEPT ![e] = r.edge])

RECURSIVE node_forward_loop(_, _, _, _, _)
\* Mutant of node_forward_step: = in place of += on the running sum.
node_forward_step_keep_last(node, inputs, i, result, r) ==
    IF r.kind # "ok" THEN r
    ELSE node_forward_loop(r.edges, node, inputs, i + 1, r.val)

\* One turn of the loop of forward, r being the outcome of edge.forward.
node_forward_step(node, inputs, i, result, r) ==
    IF r.kind # "ok" THEN r
    ELSE node_forward_loop(r.edges, node, inputs, i + 1, RAdd(result, r.val))

node_forward_loop(arena, node, inputs, i, result) ==
    IF i >= Len(node.incoming) THEN Out("ok", result, arena)
    ELSE node_forward_step(node, inputs, i, result,
             InArena(arena, At(node.incoming, i),
                     Edge_forward(arena[At(node.incoming, i)], At(inputs, i))))

\* What the loop of forward does with fewer inputs than incoming edges.
forward_past_end(r) ==
    IF r.kind # "ok" THEN r ELSE Out("IndexOutOfBounds", Zero, r.edges)

\* Mutant of Node_forward: the length check is missing.
Node_forward_unchecked(arena, node, inputs) ==
    IF Len(inputs) < Len(node.incoming)
    THEN forward_past_end(node_forward_loop(arena,
             [node EXCEPT !.incoming = SubSeq(@, 1, Len(inputs))], inputs, 0, Zero))
    ELSE node_forward_loop(arena, node, inputs, 0, Zero)

Node_forward(arena, node, inputs) ==
    IF Len(inputs) # Len(node.incoming) THEN Out("ShapeMismatch", Zero, arena)
    ELSE node_forward_loop(arena, node, inputs, 0, Zero)

RECURSIVE node_backward_loop(_, _, _, _, _)
\* One turn of the loop of backward, r being the outcome of edge.backward.
node_backward_step(node, t, upstream_gradient, i, r) ==
    IF r.kind # "ok" THEN r
    ELSE node_backward_loop(r.edges, node, t, upstream_gradient, i + 1)

node_backward_loop(arena, node, t, upstream_gradient, i) ==
    IF i >= Len(node.incoming) THEN Out("ok", Zero, arena)
    ELSE IF ~InRange(t, i) THEN Out("IndexOutOfBounds", Zero, arena)
    ELSE node_backward_step(node, t, upstream_gradient, i,
             InArena(arena, At(node.incoming, i),
                     Edge_backward(arena[At(node.incoming, i)], At(t, i),
                                   upstream_gradient)))

Node_backward(arena, node, t, upstream_gradient) ==
    node_backward_loop(arena, node, t, upstream_gradient, 0)

RECURSIVE node_update_loop(_, _, _, _)
\* One turn of the loop of update_weights, r being the outcome of
\* edge.update_weights.
node_update_step(node, learning_rate, i, r) ==
    IF r.kind # "ok" THEN r
    ELSE node_update_loop(r.edges, node, learning_rate, i + 1)

node_update_loop(arena, node, learning_rate, i) ==
    IF i >= Len(node.incoming) THEN Out("ok", Zero, arena)
    ELSE node_update_step(node, learning_rate, i,
             InArena(arena, At(node.incoming, i),
                     Edge_update_weights(arena[At(node.incoming, i)], learning_rate)))

Node_update_weights(arena, node, learning_rate) ==
    node_update_loop(arena, node, learning_rate, 0)

----------------------------------------------------------------------------
(* Matrix: a sequence of rows.  Layer: a sequence of nodes.                *)

\* shape() reads rows[0] to count the columns: it panics on a matrix with
\* no rows.
Matrix_shape_panics(m) == Len(m) = 0

Layer_new(nodes) == nodes

\* Matrix::push appends a row.
Matrix_push(m, row) == Append(m, row)

RECURSIVE layer_forward_loop(_, _, _, _, _)
\* Mutant of layer_forward_step: one entry per row, whatever the fan-out.
layer_forward_step_single_entry(layer, input, i, result, r) ==
    IF r.kind # "ok" THEN Out(r.kind, <<>>, r.edges)
    ELSE layer_forward_loop(r.edges, layer, input, i + 1,
             Matrix_push(result, Vector_fill(r.val, 1)))

\* One turn of the loop of forward, r being the outcome of node.forward.
layer_forward_step(layer, input, i, result, r) ==
    IF r.kind # "ok" THEN Out(r.kind, <<>>, r.edges)
    ELSE layer_forward_loop(r.edges, layer, input, i + 1,
             Matrix_push(result, Vector_fill(r.val, Len(At(layer, i).outgoing))))

layer_forward_loop(arena, layer, input, i, result) ==
    IF i >= Len(layer) THEN Out("ok", result, arena)
    ELSE layer_forward_step(layer, input, i, result,
                            Node_forward(arena, At(layer, i), At(input, i)))

\* Mutant of Layer_forward: the row count is checked with < in place of !=.
Layer_forward_extra_rows(arena, layer, input) ==
    IF Matrix_shape_panics(input) THEN Out("IndexOutOfBounds", <<>>, arena)
    ELSE IF Len(input) < Len(layer) THEN Out("ShapeMismatch", <<>>, arena)
    ELSE layer_forward_loop(arena, layer, input, 0, <<>>)

Layer_forward(arena, layer, input) ==
    IF Matrix_shape_panics(input) THEN Out("IndexOutOfBounds", <<>>, arena)
    ELSE IF Len(input) # Len(layer) THEN Out("ShapeMismatch", <<>>, arena)
    ELSE layer_forward_loop(arena, layer, input, 0, <<>>)

RECURSIVE layer_backward_loop(_, _, _, _, _)
\* One turn of the loop of backward, r being the outcome of node.backward.
layer_backward_step(layer, input, upstream_gradient, i, r) ==
    IF r.kind # "ok" THEN r
    ELSE layer_backward_loop(r.edges, layer, input, upstream_gradient, i + 1)

layer_backward_loop(arena, layer, input, upstream_gradient, i) ==
    IF i >= Len(layer) THEN Out("ok", Zero, arena)
    ELSE layer_backward_step(layer, input, upstream_gradient, i,
             Node_backward(arena, At(layer, i), At(input, i),
                           At(upstream_gradient, i)))

\* Mutant of Layer_backward: every node receives upstream_gradient[0].
Layer_backward_first_upstream(arena, layer, input, upstream_gradient) ==
    IF Matrix_shape_panics(input) THEN Out("IndexOutOfBounds", Zero, arena)
    ELSE IF Len(input) # Len(layer) THEN Out("ShapeMismatch", Zero, arena)
    ELSE IF Len(upstream_gradient) # Len(layer) THEN Out("ShapeMismatch", Zero, arena)
    ELSE layer_backward_loop(arena, layer, input,
             Vector_fill(At(upstream_gradient, 0), Len(upstream_gradient)), 0)

Layer_backward(arena, layer, input, upstream_gradient) ==
    IF Matrix_shape_panics(input) THEN Out("IndexOutOfBounds", Zero, arena)
    ELSE IF Len(input) # Len(layer) THEN Out("ShapeMismatch", Zero, arena)
    ELSE IF Len(upstream_gradient) # Len(layer) THEN Out("ShapeMismatch", Zero, arena)
    ELSE layer_backward_loop(arena, layer, input, upstream_gradient, 0)

RECURSIVE layer_update_loop(_, _, _, _)
\* One turn of the loop of update_weights, r being the outcome of
\* node.update_weights.
layer_update_step(layer, learning_rate, i, r) ==
    IF r.kind # "ok" THEN r
    ELSE layer_update_loop(r.edges, layer, learning_rate, i + 1)

layer_update_loop(arena, layer, learning_rate, i) ==
    IF i >= Len(layer) THEN Out("ok", Zero, arena)
    ELSE layer_update_step(layer, learning_rate, i,
             Node_update_weights(arena, At(layer, i), learning_rate))

Layer_update_weights(arena, layer, learning_rate) ==
    layer_update_loop(arena, layer, learning_rate, 0)

----------------------------------------------------------------------------
(* KAN: kan stands for self.layers, a sequence of layers.                  *)

KAN_new(kan) == kan

\* The outcome of a pass over the layers: outputs holds the matrix every
\* layer returned, in order (layer_outputs in backward).
KanOut(kind, val, outputs, arena) ==
    [kind |-> kind, val |-> val, outputs |-> outputs, edges |-> arena]

RECURSIVE forward_loop(_, _, _, _, _)
\* One turn of the loop over the layers, r being the outcome of
\* layer.forward(output).
forward_step(kan, l, outputs, r) ==
    IF r.kind # "ok" THEN KanOut(r.kind, <<>>, outputs, r.edges)
    ELSE forward_loop(r.edges, kan, r.val, l + 1, Append(outputs, r.val))

forward_loop(arena, kan, output, l, outputs) ==
    IF l >= Len(kan) THEN KanOut("ok", output, outputs, arena)
    ELSE forward_step(kan, l, outputs, Layer_forward(arena, At(kan, l), output))

\* output[0][0], f being the outcome of the loop over the layers.
first_entry(f) ==
    IF f.kind # "ok" THEN KanOut(f.kind, Zero, f.outputs, f.edges)
    ELSE IF ~InRange(f.val, 0) \/ ~InRange(At(f.val, 0), 0)
        THEN KanOut("IndexOutOfBounds", Zero, f.outputs, f.edges)
    ELSE KanOut("ok", At(At(f.val, 0), 0), f.outputs, f.edges)

KAN_forward(arena, kan, input) ==
    first_entry(forward_loop(arena, kan, input, 0, <<>>))

\* The outcome of backward: calls holds, in the order they were made, the
\* layer, the layer_input and the upstream_gradient of every layer.backward
\* call, the failing one included.
BackOut(kind, calls, arena) ==
    [kind |-> kind, val |-> Zero, calls |-> calls, edges |-> arena]

LayerCall(layer, layer_input, upstream_gradient) ==
    [layer |-> layer, input |-> layer_input, upstream |-> upstream_gradient]

RECURSIVE kan_backward_loop(_, _, _, _, _, _, _)
\* Mutant of kan_backward_step: the next upstream gradient is filled with the
\* first entry of the current one, doubled.
kan_backward_step_doubled(kan, input, layer_outputs, i, upstream_gradient, calls, r) ==
    IF r.kind # "ok" THEN BackOut(r.kind, calls, r.edges)
    ELSE kan_backward_loop(r.edges, kan, input, layer_outputs, i + 1,
             Vector_fill(RMul(Two, At(upstream_gradient, 0)),
                         Len(At(kan, Len(kan) - 1 - i))),
             calls)

\* The end of one turn of the loop over the layers in reverse, r being the
\* outcome of layer.backward(layer_input, &upstream_gradient).
kan_backward_step(kan, input, layer_outputs, i, upstream_gradient, calls, r) ==
    IF r.kind # "ok" THEN BackOut(r.kind, calls, r.edges)
    ELSE kan_backward_loop(r.edges, kan, input, layer_outputs, i + 1,
             Vector_fill(Vector_sum(upstream_gradient),
                         Len(At(kan, Len(kan) - 1 - i))),
             calls)

\* layer.backward(layer_input, &upstream_gradient) on the layer of turn i.
kan_backward_call(arena, kan, input, layer_outputs, i, upstream_gradient, calls, layer_input) ==
    kan_backward_step(kan, input, layer_outputs, i, upstream_gradient,
        Append(calls, LayerCall(Len(kan) - 1 - i, layer_input, upstream_gradient)),
        Layer_backward(arena, At(kan, Len(kan) - 1 - i), layer_input,
                       upstream_gradient))

\* i counts the turns of the loop: turn i handles layer Len(kan) - 1 - i and
\* takes layer_outputs[i - 1], or input on turn 0, as that layer's input.
kan_backward_loop(arena, kan, input, layer_outputs, i, upstream_gradient, calls) ==
    IF i >= Len(kan) THEN BackOut("ok", calls, arena)
    ELSE kan_backward_call(arena, kan, input, layer_outputs, i, upstream_gradient,
             calls, IF i > 0 THEN At(layer_outputs, i - 1) ELSE input)

\* The error gradient 2 * (final_output - target) and the backward pass,
\* f being the outcome of the forward pass.
backward_pass(kan, input, target, f) ==
    IF f.kind # "ok" THEN BackOut(f.kind, <<>>, f.edges)
    ELSE IF f.outputs = <<>> THEN BackOut("UnwrapNone", <<>>, f.edges)
    ELSE IF ~InRange(f.val, 0) \/ ~InRange(At(f.val, 0), 0)
        THEN BackOut("IndexOutOfBounds", <<>>, f.edges)
    ELSE kan_backward_loop(f.edges, kan, input, f.outputs, 0,
             <<RMul(Two, RSub(At(At(f.val, 0), 0), target))>>, <<>>)

KAN_backward(arena, kan, input, target) ==
    backward_pass(kan, input, target, forward_loop(arena, kan, input, 0, <<>>))

RECURSIVE update_edges_loop(_, _, _, _)
\* One turn of the loop of update_edges, r being the outcome of
\* layer.update_weights.
update_edges_step(kan, learning_rate, l, r) ==
    IF r.kind # "ok" THEN r
    ELSE update_edges_loop(r.edges, kan, learning_rate, l + 1)

update_edges_loop(arena, kan, learning_rate, l) ==
    IF l >= Len(kan) THEN Out("ok", Zero, arena)
    ELSE update_edges_step(kan, learning_rate, l,
             Layer_update_weights(arena, At(kan, l), learning_rate))

KAN_update_edges(arena, kan, learning_rate) ==
    IF RLe(learning_rate, Zero) THEN Out("InvalidLearningRate", Zero, arena)
    ELSE update_edges_loop(arena, kan, learning_rate, 0)

\* (output - target).powi(2), r being the outcome of forward.
squared_error(target, r) ==
    IF r.kind # "ok" THEN Out(r.kind, Zero, r.edges)
    ELSE Out("ok", RMul(RSub(r.val, target), RSub(r.val, target)), r.edges)

KAN_loss_single(arena, kan, input, target) ==
    squared_error(target, KAN_forward(arena, kan, <<input>>))

\* The last line of train, u being the outcome of update_edges.
train_loss(kan, input, target, u) ==
    IF u.kind # "ok" THEN u ELSE KAN_loss_single(u.edges, kan, input, target)

\* The second line of train, b being the outcome of backward.
train_update(kan, input, target, learning_rate, b) ==
    IF b.kind # "ok" THEN b
    ELSE train_loss(kan, input, target, KAN_update_edges(b.edges, kan, learning_rate))

\* Mutant of KAN_train: the loss is taken before backward and update_edges.
train_keep_loss(loss, u) == IF u.kind # "ok" THEN u ELSE Out("ok", loss.val, u.edges)

train_after_loss(kan, input, target, learning_rate, loss) ==
    IF loss.kind # "ok" THEN loss
    ELSE train_keep_loss(loss,
             train_update(kan, input, target, learning_rate,
                          KAN_backward(loss.edges, kan, <<input>>, target)))

KAN_train_loss_first(arena, kan, input, target, learning_rate) ==
    train_after_loss(kan, input, target, learning_rate,
                     KAN_loss_single(arena, kan, input, target))

KAN_train(arena, kan, input, target, learning_rate) ==
    train_update(kan, input, target, learning_rate,
                 KAN_backward(arena, kan, <<input>>, target))

----------------------------------------------------------------------------
(* The record of one call.                                                 *)

\* pre is the arena as it was when the call was made.
Call(name, kind, val, args) ==
    [name |-> name, kind |-> kind, val |-> val, args |-> args, pre |-> edges]

NoCall == Call("new", "ok", Zero, [none |-> 0])

\* The arena as the n-th call left it.
Post(n) == IF n = Len(hist) THEN edges ELSE hist[n + 1].pre

op == IF hist = <<>> THEN NoCall ELSE hist[Len(hist)]

Record(call) == hist' = Append(hist, call)

\* Fewer than max calls were made so far.
Within(max) == Len(hist) < max

\* The call leaves the arena of its outcome r and is recorded with it.
Finish(name, args, r) ==
    /\ edges' = r.edges
    /\ Record(Call(name, r.kind, r.val, args))
    /\ UNCHANGED layers

----------------------------------------------------------------------------
(* Inputs.                                                                 *)

MaxEdgeSteps == 2

\* Spline parameters: below, at the ends of, inside and above [0, 1].
Params == {<<-1, 2>>, Zero, <<1, 2>>, One, <<3, 2>>}

Gradients == {One, <<-1, 2>>}

LearningRates == {<<-1, 2>>, Zero, <<1, 2>>}

\* The control points and degree of the hand-built edges of edge_tests.rs.
TestControlPoints == {<<One, Two, <<3, 1>>>>}

TestDegrees == {1, 2}

----------------------------------------------------------------------------
(* SpecEdge: one edge, called directly, and its spline.                    *)

InitEdge ==
    /\ \E cp \in TestControlPoints, degree \in TestDegrees :
          edges = <<Edge_new(0, 1, BSpline_new(cp, degree), 0)>>
    /\ layers = <<>>
    /\ hist = <<>>

EdgeForward(e, t) ==
    Finish("Edge.forward", [e |-> e, t |-> t],
           InArena(edges, e, Edge_forward(edges[e], t)))

\* Batches of parameters: none, the three of edge_forward_batch_pass, and
\* two with a parameter outside [0, 1] first or last.
Batches ==
    {<<>>, <<<<1, 2>>>>, <<<<3, 10>>, <<1, 2>>, <<7, 10>>>>,
     <<<<1, 2>>, <<3, 2>>>>, <<<<3, 2>>, <<1, 2>>>>}

EdgeForwardBatch(e, inputs) ==
    Finish("Edge.forward_batch", [e |-> e, inputs |-> inputs],
           InArena(edges, e, Edge_forward_batch(edges[e], inputs)))

EdgeBackward(e, t, g) ==
    Finish("Edge.backward", [e |-> e, t |-> t, g |-> g],
           InArena(edges, e, Edge_backward(edges[e], t, g)))

EdgeUpdateWeights(e, lr) ==
    Finish("Edge.update_weights", [e |-> e, lr |-> lr],
           InArena(edges, e, Edge_update_weights(edges[e], lr)))

\* The arena after a call on the spline of its edge e had the outcome r.
InSpline(arena, e, r) ==
    Out(r.kind, r.val, [arena EXCEPT ![e] = WithMemo(arena[e], r.memo)])

SplineEval(e, t) ==
    Finish("BSpline.eval", [e |-> e, t |-> t],
           InSpline(edges, e, BSpline_eval(edges[e].spline, t)))

SplineBasis(e, i, d, t) ==
    Finish("BSpline.basis", [e |-> e, i |-> i, d |-> d, t |-> t],
           InSpline(edges, e,
                    BSpline_basis(edges[e].spline.knots, edges[e].spline.memo,
                                  i, d, t)))

\* Pairs <<i, degree>> basis is called with on the spline of the edge.
EdgeBasisIndices == {<<0, 1>>, <<2, 2>>}

NextEdge ==
    \/ \E t \in Params : Within(MaxEdgeSteps) /\ EdgeForward(1, t)
    \/ \E inputs \in Batches : Within(MaxEdgeSteps) /\ EdgeForwardBatch(1, inputs)
    \/ \E t \in Params : Within(MaxEdgeSteps) /\ SplineEval(1, t)
    \/ \E p \in EdgeBasisIndices, t \in Params :
          Within(MaxEdgeSteps) /\ SplineBasis(1, p[1], p[2], t)
    \/ \E t \in Params, g \in Gradients :
          Within(MaxEdgeSteps) /\ EdgeBackward(1, t, g)
    \/ \E lr \in LearningRates : Within(MaxEdgeSteps) /\ EdgeUpdateWeights(1, lr)

SpecEdge == InitEdge /\ [][NextEdge]_vars

----------------------------------------------------------------------------
(* SpecMemo: one edge and its spline, called directly with the calls that  *)
(* read and write the memo, the gradient and the control points.           *)

MaxMemoSteps == 2

\* Parameters inside [0, 1] and at its upper end.
MemoParams == {<<1, 2>>, One}

NextMemo ==
    \/ \E t \in MemoParams : Within(MaxMemoSteps) /\ SplineEval(1, t)
    \/ \E p \in EdgeBasisIndices, t \in MemoParams :
          Within(MaxMemoSteps) /\ SplineBasis(1, p[1], p[2], t)
    \/ \E t \in MemoParams : Within(MaxMemoSteps) /\ EdgeForward(1, t)
    \/ \E t \in Params : Within(MaxMemoSteps) /\ EdgeBackward(1, t, One)
    \/ Within(MaxMemoSteps) /\ EdgeUpdateWeights(1, <<1, 2>>)

SpecMemo == InitEdge /\ [][NextMemo]_vars

----------------------------------------------------------------------------
(* SpecSpline: the spline of one edge, three control points of degree 2 on *)
(* the knots 0, 0.2, ..., 1, called directly.                              *)

MaxSplineSteps == 2

\* Parameters at the ends of [0, 1] and the ones the tests evaluate the
\* spline at; 0.4 and 0.6 are knots[degree] and knots[n].
SplineParams ==
    {Zero, <<3, 10>>, <<2, 5>>, <<9, 20>>, <<1, 2>>, <<3, 5>>, <<7, 10>>, One}

\* Pairs <<i, degree>> basis is called with, inside the knot vector.
BasisIndices == {<<0, 0>>, <<1, 0>>, <<1, 1>>, <<0, 2>>, <<1, 2>>, <<2, 2>>}

\* Pairs <<i, degree>> with i + degree + 1 past the last index 5 of the
\* knot vector.
PastIndices == {<<5, 0>>, <<6, 0>>, <<4, 1>>, <<3, 2>>}

InitSpline ==
    /\ \E cp \in TestControlPoints :
          edges = <<Edge_new(0, 1, BSpline_new(cp, 2), 0)>>
    /\ layers = <<>>
    /\ hist = <<>>

NextSpline ==
    \/ \E t \in SplineParams : Within(MaxSplineSteps) /\ SplineEval(1, t)
    \/ \E p \in BasisIndices, t \in SplineParams :
          Within(MaxSplineSteps) /\ SplineBasis(1, p[1], p[2], t)
    \/ \E p \in PastIndices, t \in Params :
          Within(MaxSplineSteps) /\ SplineBasis(1, p[1], p[2], t)

SpecSpline == InitSpline /\ [][NextSpline]_vars

----------------------------------------------------------------------------
(* SpecLayer: the layer of layer_tests.rs, two nodes of two incoming edges *)
(* and one outgoing edge each, its nodes and itself called directly.       *)

MaxLayerSteps == 1

MaxRows == 3

\* A row of the given length with distinct parameters inside [0, 1].
RowOf(len) == SubSeq(<<<<1, 4>>, <<1, 2>>, <<3, 4>>>>, 1, len)

\* Rows shorter than, as long as and longer than the fan-in of two.
Rows == {RowOf(len) : len \in 1..3}

\* Every matrix of at most MaxRows such rows, the matrix without rows
\* included, and one whose first row is outside the spline domain.
Matrices ==
    UNION {[1..n -> Rows] : n \in 0..MaxRows}
        \cup {<<Vector_fill(<<3, 2>>, 2), RowOf(1)>>}

NodeInputs == {<<>>} \cup Rows \cup {Vector_fill(<<3, 2>>, 2)}

\* One to three entries, distinct from node to node.
Upstreams == {SubSeq(<<One, <<-1, 2>>, <<1, 2>>>>, 1, len) : len \in 1..3}

\* The outgoing edges of the two nodes: one each as in layer_tests.rs, or
\* both on the first node and none on the second.
FanOuts == {<<<<5>>, <<6>>>>, <<<<5, 6>>, <<>>>>}

InitLayer ==
    /\ edges = <<Edge_new(0, 0, BSpline_new(<<One, Two, <<3, 1>>>>, 2), 0),
                 Edge_new(1, 0, BSpline_new(<<<<3, 2>>, <<5, 2>>, <<7, 2>>>>, 2), 0),
                 Edge_new(0, 1, BSpline_new(<<Zero, One, Two>>, 2), 0),
                 Edge_new(1, 1, BSpline_new(<<<<1, 2>>, <<3, 2>>, <<5, 2>>>>, 2), 0),
                 Edge_new(0, 0, BSpline_new(<<<<1, 2>>, <<3, 2>>, <<5, 2>>>>, 2), 0),
                 Edge_new(0, 1, BSpline_new(<<Zero, One, Two>>, 2), 0)>>
    /\ \E out \in FanOuts :
          layers = <<Layer_new(<<Node_new(<<1, 2>>, out[1], 0),
                                 Node_new(<<3, 4>>, out[2], 0)>>)>>
    /\ hist = <<>>

NodeForward(l, n, inputs) ==
    Finish("Node.forward", [l |-> l, n |-> n, inputs |-> inputs],
           Node_forward(edges, layers[l][n], inputs))

NodeBackward(l, n, inputs, g) ==
    Finish("Node.backward", [l |-> l, n |-> n, inputs |-> inputs, g |-> g],
           Node_backward(edges, layers[l][n], inputs, g))

LayerForward(l, input) ==
    Finish("Layer.forward", [l |-> l, input |-> input],
           Layer_forward(edges, layers[l], input))

LayerBackward(l, input, upstream) ==
    Finish("Layer.backward", [l |-> l, input |-> input, upstream |-> upstream],
           Layer_backward(edges, layers[l], input, upstream))

NodeUpdateWeights(l, n, lr) ==
    Finish("Node.update_weights", [l |-> l, n |-> n, lr |-> lr],
           Node_update_weights(edges, layers[l][n], lr))

LayerUpdateWeights(l, lr) ==
    Finish("Layer.update_weights", [l |-> l, lr |-> lr],
           Layer_update_weights(edges, layers[l], lr))

NextLayer ==
    \/ \E n \in 1..Len(layers[1]), inputs \in NodeInputs :
          Within(MaxLayerSteps) /\ NodeForward(1, n, inputs)
    \/ \E n \in 1..Len(layers[1]), inputs \in NodeInputs :
          Within(MaxLayerSteps) /\ NodeBackward(1, n, inputs, One)
    \/ \E input \in Matrices : Within(MaxLayerSteps) /\ LayerForward(1, input)
    \/ \E input \in Matrices, upstream \in Upstreams :
          Within(MaxLayerSteps) /\ LayerBackward(1, input, upstream)

SpecLayer == InitLayer /\ [][NextLayer]_vars

----------------------------------------------------------------------------
(* Networks.                                                               *)

StandardSize == 5

StandardDegree == 2

\* The control points Edge::standard draws for the k-th edge it builds:
\* bounded values that differ from edge to edge and from seed to seed.
RandomControlPoints(seed, k) ==
    [c \in 1..StandardSize |-> Rat(((seed + k + c) % 3) - 1, 2)]

Edge_standard(start, end, layer, control_points) ==
    Edge_new(start, end, BSpline_new(control_points, StandardDegree), layer)

\* KAN::standard(n, m).  The arena holds the edges the network keeps: the
\* n * m edges into the hidden layer, edge (i, j) from input i to hidden
\* node j at index i * m + j + 1, then the m edges out of it.  The input
\* nodes and their incoming edges are dropped when standard returns.
KAN_standard_edges(n, m, seed) ==
    [k \in 1..(n * m + m) |->
        IF k <= n * m
        THEN Edge_standard((k - 1) \div m, (k - 1) % m, 1, RandomControlPoints(seed, k))
        ELSE Edge_standard(k - n * m - 1, 0, 2, RandomControlPoints(seed, k))]

\* Mutant of KAN_standard: the output node takes the outgoing edges of the
\* hidden nodes in reverse order.
KAN_standard_reversed(n, m) ==
    KAN_new(<<Layer_new([i \in 1..m |->
                  Node_new([j \in 1..n |-> (j - 1) * m + i], <<n * m + i>>, 1)]),
              Layer_new(<<Node_new([i \in 1..m |-> n * m + (m + 1 - i)], <<>>, 2)>>)>>)

KAN_standard(n, m) ==
    KAN_new(<<Layer_new([i \in 1..m |->
                  Node_new([j \in 1..n |-> (j - 1) * m + i], <<n * m + i>>, 1)]),
              Layer_new(<<Node_new([i \in 1..m |-> n * m + i], <<>>, 2)>>)>>)

\* A network built by hand from nodes and KAN::new as in kan_new_pass:
\* depth layers of width nodes, one incoming edge per node of the first
\* layer, an edge from every node to every node of the next layer, and one
\* outgoing edge per node of the last layer.  kan_new_pass is Grid(1, 2).
GridEdge(width, l, i, j) == width + (l - 1) * width * width + (i - 1) * width + j

Grid_edges(width, depth, seed) ==
    [k \in 1..(2 * width + (depth - 1) * width * width) |->
        IF k <= width THEN Edge_standard(k - 1, k - 1, 0, RandomControlPoints(seed, k))
        ELSE Edge_standard(((k - width - 1) % (width * width)) \div width,
                           (k - width - 1) % width,
                           (k - width - 1) \div (width * width) + 1,
                           RandomControlPoints(seed, k))]

Grid(width, depth) ==
    KAN_new([l \in 1..depth |->
        Layer_new([j \in 1..width |->
            Node_new(IF l = 1 THEN <<j>>
                     ELSE [i \in 1..width |-> GridEdge(width, l - 1, i, j)],
                     IF l = depth THEN <<GridEdge(width, depth, 1, j)>>
                     ELSE [k \in 1..width |-> GridEdge(width, l, j, k)],
                     l - 1)])])

----------------------------------------------------------------------------
(* Spec: a network, called through KAN and through the first node of its   *)
(* last layer.                                                             *)

MaxSteps == 1

Seeds == {0, 1}

\* n and m of KAN::standard(n, m).
StandardShapes == {<<1, 1>>, <<1, 2>>, <<2, 1>>, <<2, 2>>}

\* width and depth of the hand-built networks.
GridShapes == {<<1, 1>>, <<2, 2>>}

\* Input vectors of train and loss_single: one or two parameters inside
\* [0, 1], at an end of it or on an inner knot of a standard edge.
KanVectors == {<<Zero>>, <<<<3, 7>>>>, <<One>>, <<One, Zero>>, <<<<3, 7>>, One>>}

\* Input matrices of forward and backward: one row, or two rows of equal
\* length.
KanMatrices ==
    {<<v>> : v \in KanVectors}
        \cup {<<<<One>>, <<Zero>>>>, <<<<One, Zero>>, <<Zero, One>>>>}

Targets == {Zero, <<1, 2>>}

Init ==
    /\ \E seed \in Seeds :
          \/ \E s \in StandardShapes :
                /\ edges = KAN_standard_edges(s[1], s[2], seed)
                /\ layers = KAN_standard(s[1], s[2])
          \/ \E s \in GridShapes :
                /\ edges = Grid_edges(s[1], s[2], seed)
                /\ layers = Grid(s[1], s[2])
    /\ hist = <<>>

\* The call is recorded with the matrices the layers returned.
FinishPass(name, args, r) ==
    /\ edges' = r.edges
    /\ Record(Call(name, r.kind, r.val, args) @@ [outputs |-> r.outputs])
    /\ UNCHANGED layers

KanForward(input) ==
    FinishPass("KAN.forward", [input |-> input], KAN_forward(edges, layers, input))

\* The call is recorded with the layer.backward calls it made.
FinishBackward(name, args, r) ==
    /\ edges' = r.edges
    /\ Record(Call(name, r.kind, r.val, args) @@ [calls |-> r.calls])
    /\ UNCHANGED layers

KanBackward(input, target) ==
    FinishBackward("KAN.backward", [input |-> input, target |-> target],
                   KAN_backward(edges, layers, input, target))

KanUpdateEdges(lr) ==
    Finish("KAN.update_edges", [lr |-> lr], KAN_update_edges(edges, layers, lr))

KanLossSingle(input, target) ==
    Finish("KAN.loss_single", [input |-> input, target |-> target],
           KAN_loss_single(edges, layers, input, target))

KanTrain(input, target, lr) ==
    Finish("KAN.train", [input |-> input, target |-> target, lr |-> lr],
           KAN_train(edges, layers, input, target, lr))

Next ==
    \/ \E input \in KanMatrices : Within(MaxSteps) /\ KanForward(input)
    \/ \E input \in KanMatrices, target \in Targets :
          Within(MaxSteps) /\ KanBackward(input, target)
    \/ \E lr \in LearningRates : Within(MaxSteps) /\ KanUpdateEdges(lr)
    \/ \E input \in KanVectors, target \in Targets :
          Within(MaxSteps) /\ KanLossSingle(input, target)
    \/ \E input \in KanVectors, target \in Targets, lr \in LearningRates :
          Within(MaxSteps) /\ KanTrain(input, target, lr)
    \/ \E inputs \in KanVectors :
          Within(MaxSteps) /\ NodeBackward(Len(layers), 1, inputs, One)
    \/ Within(MaxSteps) /\ NodeUpdateWeights(Len(layers), 1, <<1, 2>>)

Spec == Init /\ [][Next]_vars

----------------------------------------------------------------------------
(* SpecUpdate: a network of one node, its edges updated directly and       *)
(* through KAN.                                                            *)

MaxUpdateSteps == 2

InitUpdate ==
    /\ \E seed \in Seeds :
          /\ edges = Grid_edges(1, 1, seed)
          /\ layers = Grid(1, 1)
    /\ hist = <<>>

NextUpdate ==
    \/ \E input \in KanMatrices, target \in Targets :
          Within(MaxUpdateSteps) /\ KanBackward(input, target)
    \/ \E e \in 1..Len(edges), lr \in LearningRates :
          Within(MaxUpdateSteps) /\ EdgeUpdateWeights(e, lr)
    \/ \E lr \in LearningRates : Within(MaxUpdateSteps) /\ KanUpdateEdges(lr)

SpecUpdate == InitUpdate /\ [][NextUpdate]_vars

----------------------------------------------------------------------------
(* SpecNet: the two-layer network of kan_new_pass, one node per layer, and *)
(* the two-layer network of two nodes per layer, called at every level:    *)
(* its first edge, the nodes of its last layer, that layer, and itself.     *)

MaxNetSteps == 2

\* width and depth of the networks.
NetShapes == {<<1, 2>>, <<2, 2>>}

NetParam == <<1, 2>>

\* Input vectors of a node of one and of two incoming edges.
NetRows == {<<<<1, 2>>>>, <<One, Zero>>}

\* Input matrices: the one of kan_forward_pass, and one for each layer of
\* the network of two nodes per layer.
NetMatrices == {<<<<One>>>>, <<<<One>>, <<Zero>>>>, <<<<One, Zero>>, <<Zero, One>>>>}

\* <<input, upstream_gradient>> of Layer.backward: for a layer of one node,
\* for a layer of two nodes, and two rows with one upstream entry.
NetBackwardArgs ==
    {<<<<<<One>>>>, <<One>>>>,
     <<<<<<One, Zero>>, <<Zero, One>>>>, <<One, <<-1, 2>>>>>>,
     <<<<<<One>>, <<Zero>>>>, <<One>>>>}

NetRate == <<1, 2>>

InitNet ==
    /\ \E s \in NetShapes :
          /\ edges = Grid_edges(s[1], s[2], 0)
          /\ layers = Grid(s[1], s[2])
    /\ hist = <<>>

NextNet ==
    \/ Within(MaxNetSteps) /\ EdgeForward(1, NetParam)
    \/ Within(MaxNetSteps) /\ EdgeForwardBatch(1, <<NetParam, One>>)
    \/ Within(MaxNetSteps) /\ EdgeBackward(1, NetParam, One)
    \/ Within(MaxNetSteps) /\ EdgeUpdateWeights(1, NetRate)
    \/ \E n \in 1..Len(layers[2]), inputs \in NetRows :
          Within(MaxNetSteps) /\ NodeForward(2, n, inputs)
    \/ \E n \in 1..Len(layers[2]), inputs \in NetRows :
          Within(MaxNetSteps) /\ NodeBackward(2, n, inputs, One)
    \/ \E n \in 1..Len(layers[2]) :
          Within(MaxNetSteps) /\ NodeUpdateWeights(2, n, NetRate)
    \/ \E input \in NetMatrices : Within(MaxNetSteps) /\ LayerForward(2, input)
    \/ \E a \in NetBackwardArgs :
          Within(MaxNetSteps) /\ LayerBackward(2, a[1], a[2])
    \/ Within(MaxNetSteps) /\ LayerUpdateWeights(2, NetRate)
    \/ \E input \in NetMatrices : Within(MaxNetSteps) /\ KanForward(input)
    \/ \E input \in NetMatrices : Within(MaxNetSteps) /\ KanBackward(input, Zero)
    \/ Within(MaxNetSteps) /\ KanUpdateEdges(NetRate)
    \/ Within(MaxNetSteps) /\ KanTrain(<<One>>, Zero, NetRate)

SpecNet == InitNet /\ [][NextNet]_vars

----------------------------------------------------------------------------
(* The Cox-de Boor recursion as the specification states it, without memo  *)
(* and without failure: the reference the claims compare the code with.    *)

RECURSIVE CoxDeBoor(_, _, _, _)
CoxDeBoor(knots, i, d, t) ==
    IF d = 0
    THEN IF RLe(At(knots, i), t) /\ RLt(t, At(knots, i + 1)) THEN One ELSE Zero
    ELSE RAdd(IF At(knots, i + d) = At(knots, i) THEN Zero
              ELSE RMul(RDiv(RSub(t, At(knots, i)),
                             RSub(At(knots, i + d), At(knots, i))),
                        CoxDeBoor(knots, i, d - 1, t)),
              IF At(knots, i + d + 1) = At(knots, i + 1) THEN Zero
              ELSE RMul(RDiv(RSub(At(knots, i + d + 1), t),
                             RSub(At(knots, i + d + 1), At(knots, i + 1))),
                        CoxDeBoor(knots, i + 1, d - 1, t)))

\* basis(i, degree, t) of an edge's spline, for every control-point index.
BasisVector(edge, t) ==
    [k \in 1..Len(edge.spline.control_points) |->
        CoxDeBoor(edge.spline.knots, k - 1, edge.spline.degree, t)]

IsCall(c, name) == c.name = name /\ c.kind = "ok"

----------------------------------------------------------------------------
(* C4: after Edge.backward(t, g) followed by Edge.update_weights(lr) on    *)
(* the same edge, every control point is the old one minus                 *)
(* lr * basis(i, degree, t) * g, and the gradient buffer is all zeros.     *)

C4_UpdateAfterBackward ==
    \A n \in 2..Len(hist) :
        LET b == hist[n - 1]
            u == hist[n]
        IN  (IsCall(b, "Edge.backward") /\ IsCall(u, "Edge.update_weights")
                /\ b.args.e = u.args.e)
            => LET old == b.pre[b.args.e]
                   new == Post(n)[b.args.e]
                   N == BasisVector(old, b.args.t)
               IN  /\ Len(new.spline.control_points) = Len(old.spline.control_points)
                   /\ \A k \in 1..Len(old.spline.control_points) :
                         new.spline.control_points[k] =
                             RSub(old.spline.control_points[k],
                                  RMul(RMul(u.args.lr, N[k]), b.args.g))
                   /\ new.gradient = Vector_zeros(Len(old.spline.control_points))

C4_Witness ==
    /\ Len(hist) >= 2
    /\ IsCall(hist[Len(hist) - 1], "Edge.backward")
    /\ IsCall(hist[Len(hist)], "Edge.update_weights")
    /\ hist[Len(hist)].args.e = hist[Len(hist) - 1].args.e
    /\ edges[op.args.e].spline.control_points
          # hist[Len(hist) - 1].pre[op.args.e].spline.control_points

----------------------------------------------------------------------------
(* C5: Edge.backward overwrites.  For an edge whose most recent successful *)
(* gradient-writing call is Edge.backward(t, g), with no update since,     *)
(* gradient[i] = basis(i, degree, t) * g for every control-point index i.  *)

WritesGradient(c, e) ==
    /\ c.kind = "ok"
    /\ c.name \in {"Edge.backward", "Edge.update_weights"}
    /\ c.args.e = e

LastWrite(e) ==
    LET W == {n \in 1..Len(hist) : WritesGradient(hist[n], e)}
    IN  IF W = {} THEN 0 ELSE CHOOSE n \in W : \A m \in W : m <= n

C5_BackwardOverwrites ==
    \A e \in 1..Len(edges) :
        LET n == LastWrite(e)
        IN  (n > 0 /\ hist[n].name = "Edge.backward")
            => edges[e].gradient =
                   Vector_mul(BasisVector(edges[e], hist[n].args.t), hist[n].args.g)

\* Two successful backward calls in a row, the first of which left a
\* gradient the second had to replace.
C5_Witness ==
    /\ Len(hist) >= 2
    /\ IsCall(hist[Len(hist) - 1], "Edge.backward")
    /\ IsCall(hist[Len(hist)], "Edge.backward")
    /\ hist[Len(hist)].args.e = hist[Len(hist) - 1].args.e
    /\ hist[Len(hist)].pre[op.args.e].gradient
          # Vector_zeros(Len(edges[op.args.e].gradient))
    /\ edges[op.args.e].gradient # hist[Len(hist)].pre[op.args.e].gradient

----------------------------------------------------------------------------
(* Shape claims on nodes and layers (SpecLayer).                           *)

\* A panic raised on the shape of an argument: the explicit length check,
\* or an index past the end of a vector or matrix that is too short.
ShapeError(kind) == kind \in {"ShapeMismatch", "IndexOutOfBounds"}

InDomain(row) == \A k \in 1..Len(row) : RLe(Zero, row[k]) /\ RLe(row[k], One)

NodeShapeDiffers(c) ==
    Len(c.args.inputs) # Len(layers[c.args.l][c.args.n].incoming)

LayerShapeDiffers(c) ==
    \/ Len(c.args.input) # Len(layers[c.args.l])
    \/ \E i \in (1..Len(c.args.input)) \cap (1..Len(layers[c.args.l])) :
          Len(c.args.input[i]) # Len(layers[c.args.l][i].incoming)

(* C7: Node.backward(inputs, g) fails with a shape error for every inputs  *)
(* vector whose length differs from the number of incoming edges, shorter  *)
(* or longer (whichever failure an out-of-domain parameter causes first   *)
(* aside).                                                                 *)
C7_NodeBackwardRejectsLength ==
    \A n \in 1..Len(hist) :
        (hist[n].name = "Node.backward" /\ NodeShapeDiffers(hist[n]))
            => /\ hist[n].kind \in Panics
               /\ InDomain(hist[n].args.inputs) => ShapeError(hist[n].kind)

(* C8: Layer.backward(input, upstream) fails with a shape error whenever   *)
(* the row count differs from the node count, some row is shorter or       *)
(* longer than the fan-in of its node, or upstream is not one entry per    *)
(* node (whichever failure an out-of-domain parameter causes first        *)
(* aside).                                                                 *)
C8_LayerBackwardRejectsShape ==
    \A n \in 1..Len(hist) :
        (/\ hist[n].name = "Layer.backward"
         /\ \/ LayerShapeDiffers(hist[n])
            \/ Len(hist[n].args.upstream) # Len(layers[hist[n].args.l]))
            => /\ hist[n].kind \in Panics
               /\ (\A i \in 1..Len(hist[n].args.input) : InDomain(hist[n].args.input[i]))
                     => ShapeError(hist[n].kind)

C10_NodeForwardChecksFirst ==
    \A n \in 1..Len(hist) :
        (hist[n].name = "Node.forward" /\ NodeShapeDiffers(hist[n]))
            => hist[n].kind = "ShapeMismatch" /\ Post(n) = hist[n].pre

\* A call with fewer inputs than incoming edges, but at least one: without
\* the length test the first edge would have been evaluated.
C10_Witness ==
    /\ op.name = "Node.forward"
    /\ Len(op.args.inputs) > 0
    /\ Len(op.args.inputs) < Len(layers[op.args.l][op.args.n].incoming)
    /\ op.kind = "ShapeMismatch"
    /\ edges = op.pre

----------------------------------------------------------------------------
(* Claims on the network (Spec, SpecUpdate).                               *)

Range(f) == {f[k] : k \in DOMAIN f}

MatchesFirstLayer(input) ==
    /\ Len(input) = Len(layers[1])
    /\ \A i \in 1..Len(input) : Len(input[i]) = Len(layers[1][i].incoming)

\* The control points and the gradient of every edge, memos left out.
Weights(arena) ==
    [e \in DOMAIN arena |-> <<arena[e].spline.control_points, arena[e].gradient>>]

(* C1: on a network built by KAN::standard(n, m), KAN.forward of a matrix  *)
(* of m rows of n values inside [0, 1] completes without a shape or index  *)
(* failure.                                                                *)
C1_StandardForwardCompletes ==
    \A n \in 1..Len(hist) :
        (/\ hist[n].name = "KAN.forward"
         /\ \E s \in StandardShapes : layers = KAN_standard(s[1], s[2])
         /\ MatchesFirstLayer(hist[n].args.input)
         /\ \A i \in 1..Len(hist[n].args.input) : InDomain(hist[n].args.input[i]))
            => ~ShapeError(hist[n].kind)

(* C2: in KAN.forward, for consecutive layers L and L+1, node j of layer   *)
(* L+1 evaluates its incoming edge that is an outgoing edge of node o of   *)
(* layer L at the value node o computed.  outputs[L] is the matrix layer L *)
(* returned and layer L+1 received: its row o repeats the value of node o  *)
(* of layer L, and its row j holds, entry by entry, the parameters of the  *)
(* incoming edges of node j of layer L+1.                                  *)
C2_EdgeEvaluatedAtOriginValue ==
    \A n \in 1..Len(hist) :
        hist[n].name = "KAN.forward" =>
            \A L \in 1..(Len(layers) - 1) :
                Len(hist[n].outputs) >= L + 1 =>
                    \A j \in 1..Len(layers[L + 1]), o \in 1..Len(layers[L]) :
                        \A i \in 1..Len(layers[L + 1][j].incoming) :
                            layers[L + 1][j].incoming[i] \in Range(layers[L][o].outgoing)
                                => hist[n].outputs[L][j][i] = hist[n].outputs[L][o][1]

(* C3 as stated: the scalar KAN.train returns is the squared error         *)
(* (forward(input) - target)^2 computed with the control points as they    *)
(* were before update_edges changed them.                                  *)
C3_TrainReturnsPreUpdateLoss ==
    \A n \in 1..Len(hist) :
        IsCall(hist[n], "KAN.train")
            => hist[n].val =
                   squared_error(hist[n].args.target,
                       KAN_forward(hist[n].pre, layers, <<hist[n].args.input>>)).val

(* C3 as amended: KAN.train runs backward and then update_edges, and the   *)
(* scalar it returns is the squared error (forward(input) - target)^2      *)
(* computed with the control points as update_edges left them.             *)
C3_TrainReturnsPostUpdateLoss ==
    \A n \in 1..Len(hist) :
        IsCall(hist[n], "KAN.train")
            => /\ hist[n].val =
                      squared_error(hist[n].args.target,
                          KAN_forward(Post(n), layers, <<hist[n].args.input>>)).val
               /\ Weights(Post(n)) =
                      Weights(KAN_update_edges(
                          KAN_backward(hist[n].pre, layers, <<hist[n].args.input>>,
                                       hist[n].args.target).edges,
                          layers, hist[n].args.lr).edges)

\* A training step that changed control points and returned a loss other
\* than the one before the update.
C3_Witness ==
    /\ IsCall(op, "KAN.train")
    /\ \E e \in 1..Len(edges) :
          edges[e].spline.control_points # op.pre[e].spline.control_points
    /\ op.val # squared_error(op.args.target,
                    KAN_forward(op.pre, layers, <<op.args.input>>)).val

(* C6: Edge.update_weights(lr) and KAN.update_edges(lr) with lr <= 0 fail  *)
(* and leave every control point and every gradient entry of every edge    *)
(* as it was before the call.                                              *)
C6_NonPositiveRateRejected ==
    \A n \in 1..Len(hist) :
        (/\ hist[n].name \in {"Edge.update_weights", "KAN.update_edges"}
         /\ RLe(hist[n].args.lr, Zero))
            => /\ hist[n].kind = "InvalidLearningRate"
               /\ Weights(Post(n)) = Weights(hist[n].pre)

\* A rejected update of a network that holds a gradient a successful update
\* would have applied and cleared.
C6_Witness ==
    /\ op.name = "KAN.update_edges"
    /\ RLe(op.args.lr, Zero)
    /\ op.kind = "InvalidLearningRate"
    /\ \E e \in 1..Len(edges) :
          edges[e].gradient # Vector_zeros(Len(edges[e].gradient))

----------------------------------------------------------------------------
(* Value claims on nodes and layers (SpecLayer).                           *)

\* incoming[i].forward(inputs[i]) for every incoming edge of the node, the
\* edges taken as the arena holds them.
EdgeActivations(arena, node, inputs) ==
    [i \in 1..Len(node.incoming) |->
        Edge_forward(arena[node.incoming[i]], inputs[i]).val]

(* C11: Node forward is additive.  For every inputs vector with as many    *)
(* entries as the node has incoming edges, all inside [0, 1],              *)
(* Node.forward(inputs) succeeds and returns the sum over i of             *)
(* incoming[i].forward(inputs[i]), each edge evaluated at the input of the *)
(* same index.                                                             *)
C11_NodeForwardAdditive ==
    \A n \in 1..Len(hist) :
        (/\ hist[n].name = "Node.forward"
         /\ ~NodeShapeDiffers(hist[n])
         /\ InDomain(hist[n].args.inputs))
            => /\ hist[n].kind = "ok"
               /\ hist[n].val =
                      Vector_sum(EdgeActivations(hist[n].pre,
                          layers[hist[n].args.l][hist[n].args.n],
                          hist[n].args.inputs))

\* A successful call on two edges whose activations differ from each other
\* and from what they would be at the other input.
C11_Witness ==
    /\ IsCall(op, "Node.forward")
    /\ Len(op.args.inputs) = 2
    /\ LET node == layers[op.args.l][op.args.n]
           a == EdgeActivations(op.pre, node, op.args.inputs)
           b == EdgeActivations(op.pre, node,
                                <<op.args.inputs[2], op.args.inputs[1]>>)
       IN  a[1] # a[2] /\ a[1] # b[1] /\ op.val = RAdd(a[1], a[2])

(* C12: for a shape-correct input with every parameter inside [0, 1],      *)
(* Layer.forward returns a matrix with exactly one row per node, in node   *)
(* order; row i has length nodes[i].outgoing.length and every entry of row *)
(* i equals nodes[i].forward(input[i]).                                    *)
C12_LayerForwardRows ==
    \A n \in 1..Len(hist) :
        (/\ hist[n].name = "Layer.forward"
         /\ ~LayerShapeDiffers(hist[n])
         /\ \A i \in 1..Len(hist[n].args.input) : InDomain(hist[n].args.input[i]))
            => LET layer == layers[hist[n].args.l]
               IN  /\ hist[n].kind = "ok"
                   /\ Len(hist[n].val) = Len(layer)
                   /\ \A i \in 1..Len(layer) :
                         hist[n].val[i] =
                             Vector_fill(Node_forward(hist[n].pre, layer[i],
                                                      hist[n].args.input[i]).val,
                                         Len(layer[i].outgoing))

\* A successful call on a layer whose nodes differ in fan-out and in value:
\* a row of two entries and a row of none.
C12_Witness ==
    /\ IsCall(op, "Layer.forward")
    /\ Len(op.val) = 2
    /\ Len(op.val[1]) = 2
    /\ Len(op.val[2]) = 0
    /\ op.val[1][1] # Node_forward(op.pre, layers[op.args.l][2], op.args.input[2]).val

(* C13: after a successful Layer.backward(input, upstream) on a layer      *)
(* whose nodes have pairwise distinct incoming edges, for every node i,    *)
(* every incoming edge j of node i and every control-point index k,        *)
(* gradient[k] = basis(k, degree, input[i][j]) * upstream[i]: the scalar   *)
(* upstream[i] reaches every incoming edge of node i unchanged.            *)
C13_LayerBackwardGradients ==
    \A n \in 1..Len(hist) :
        IsCall(hist[n], "Layer.backward")
            => LET layer == layers[hist[n].args.l]
               IN  \A i \in 1..Len(layer) :
                       \A j \in 1..Len(layer[i].incoming) :
                           Post(n)[layer[i].incoming[j]].gradient =
                               Vector_mul(
                                   BasisVector(hist[n].pre[layer[i].incoming[j]],
                                               hist[n].args.input[i][j]),
                                   hist[n].args.upstream[i])

\* A successful call with two upstream entries that differ, after which
\* the edges of both nodes hold a gradient.
C13_Witness ==
    /\ IsCall(op, "Layer.backward")
    /\ op.args.upstream[1] # op.args.upstream[2]
    /\ \A i \in 1..Len(layers[op.args.l]) :
          \A j \in 1..Len(layers[op.args.l][i].incoming) :
              edges[layers[op.args.l][i].incoming[j]].gradient
                  # Vector_zeros(3)

----------------------------------------------------------------------------
(* Claims on the spline (SpecEdge, SpecSpline).                            *)

SplineCalls == {"BSpline.eval", "BSpline.basis", "Edge.forward", "Edge.backward"}

InsideKnots(spline, i, d) == InRange(spline.knots, i + d + 1)

\* <<i, d, t, value>>: the values spline_basis_pass expects.
BasisExamples ==
    {<<0, 0, Zero, One>>, <<1, 0, Zero, Zero>>, <<0, 2, <<9, 20>>, <<9, 32>>>>,
     <<1, 2, <<9, 20>>, <<11, 16>>>>, <<2, 2, <<9, 20>>, <<1, 32>>>>}

(* C15: BSpline.basis(i, d, t) equals the Cox-de Boor reference for every  *)
(* i with i + d + 1 inside the knot vector, every d <= degree and every t  *)
(* in [0, 1], whatever earlier calls left in the memo; on the knots        *)
(* 0, 0.2, ..., 1: basis(0,0,0) = 1, basis(1,0,0) = 0,                     *)
(* basis(0,2,0.45) = 0.28125, basis(1,2,0.45) = 0.6875 and                 *)
(* basis(2,2,0.45) = 0.03125.                                              *)
C15_BasisIsCoxDeBoor ==
    (/\ op.name = "BSpline.basis"
     /\ InDomain(<<op.args.t>>)
     /\ op.args.d <= op.pre[op.args.e].spline.degree
     /\ InsideKnots(op.pre[op.args.e].spline, op.args.i, op.args.d))
        => /\ op.kind = "ok"
           /\ op.val = CoxDeBoor(op.pre[op.args.e].spline.knots,
                                 op.args.i, op.args.d, op.args.t)
           /\ \A x \in BasisExamples :
                  <<op.args.i, op.args.d, op.args.t>> = <<x[1], x[2], x[3]>>
                      => op.val = x[4]

\* basis(0, 2, 0.45) called when the memo holds basis(0, 2, 0.5) from an
\* earlier call, a different value.
C15_Witness ==
    /\ IsCall(op, "BSpline.basis")
    /\ <<op.args.i, op.args.d, op.args.t>> = <<0, 2, <<9, 20>>>>
    /\ op.val = <<9, 32>>
    /\ hashmap_key(0, 2, <<1, 2>>) \in DOMAIN op.pre[op.args.e].spline.memo
    /\ op.pre[op.args.e].spline.memo[hashmap_key(0, 2, <<1, 2>>)] # op.val

\* <<t, value>>: the values of the spline of control points 1, 2, 3.
EvalExamples == {<<<<3, 10>>, One>>, <<<<1, 2>>, Two>>, <<<<7, 10>>, <<5, 2>>>>}

\* control_points[i] * basis(i, degree, t) for every control-point index.
WeightedBasis(edge, t) ==
    [k \in 1..Len(edge.spline.control_points) |->
        RMul(edge.spline.control_points[k], BasisVector(edge, t)[k])]

(* C16: BSpline.eval(t) equals the sum over all control-point indices i of *)
(* control_points[i] * basis(i, degree, t) for every t in [0, 1]; for      *)
(* control points 1, 2, 3, degree 2 and knots 0, 0.2, ..., 1 this gives    *)
(* eval(0.3) = 1, eval(0.5) = 2 and eval(0.7) = 2.5.                       *)
C16_EvalIsWeightedSum ==
    (op.name = "BSpline.eval" /\ InDomain(<<op.args.t>>))
        => /\ op.kind = "ok"
           /\ op.val = Vector_sum(WeightedBasis(op.pre[op.args.e], op.args.t))
           /\ \A x \in EvalExamples : op.args.t = x[1] => op.val = x[2]

\* eval(0.7) = 2.5 on a spline whose memo an earlier call has filled.
C16_Witness ==
    /\ IsCall(op, "BSpline.eval")
    /\ op.args.t = <<7, 10>>
    /\ op.val = <<5, 2>>
    /\ DOMAIN op.pre[op.args.e].spline.memo # {}

\* basis(0, 2, t), basis(1, 2, t), basis(2, 2, t) as the spline returns them.
DegreeTwoBasis(spline, t) ==
    [k \in 1..3 |-> BSpline_basis(spline.knots, spline.memo, k - 1, 2, t).val]

\* The three sum to 1 and none is negative.
PartitionOfUnity(spline, t) ==
    LET b == DegreeTwoBasis(spline, t)
    IN  /\ RAdd(RAdd(b[1], b[2]), b[3]) = One
        /\ \A k \in 1..3 : RLe(Zero, b[k])

\* A call of basis(i, 2, t) for one of the three control points.
IsDegreeTwoBasis(c) ==
    c.name = "BSpline.basis" /\ c.args.d = 2 /\ c.args.i \in 0..2

(* C17 as stated: for the degree-2 spline with three control points on the *)
(* knots 0, 0.2, ..., 1, basis(0,2,t) + basis(1,2,t) + basis(2,2,t) = 1    *)
(* with every term non-negative, for any t in [0, 1] at which at least one *)
(* of the three is non-zero.                                               *)
C17_PartitionOnSupport ==
    (IsDegreeTwoBasis(op) /\ op.kind = "ok" /\ op.val # Zero)
        => PartitionOfUnity(edges[op.args.e].spline, op.args.t)

(* C17 as amended: the three sum to 1, every term non-negative, for any t  *)
(* with 0.4 <= t <= 0.6, the span from knots[degree] to knots[n].          *)
C17_PartitionOnInnerSpan ==
    (IsDegreeTwoBasis(op) /\ RLe(<<2, 5>>, op.args.t) /\ RLe(op.args.t, <<3, 5>>))
        => /\ op.kind = "ok"
           /\ PartitionOfUnity(edges[op.args.e].spline, op.args.t)

\* A call at the upper end of the span, where two of the three are
\* non-zero.
C17_Witness ==
    /\ IsDegreeTwoBasis(op)
    /\ op.kind = "ok"
    /\ op.args.t = <<3, 5>>
    /\ op.val = <<1, 2>>
    /\ PartitionOfUnity(edges[op.args.e].spline, op.args.t)

\* i + d + 1 is past the last index n + degree of the knot vector.
PastKnots(c) ==
    c.name = "BSpline.basis"
        /\ c.args.i + c.args.d + 1 > Len(c.pre[c.args.e].spline.knots) - 1

\* basis(n + degree, 0, t) with t < 1: knots[i] <= t is false and
\* knots[i + 1] is not read.
LastKnotAbove(c) ==
    /\ c.args.d = 0
    /\ c.args.i = Len(c.pre[c.args.e].spline.knots) - 1
    /\ RLt(c.args.t, One)

(* C18 as stated: for a spline with n control points, BSpline.basis(i,d,t) *)
(* with i + d + 1 > n + degree fails for every t in [0, 1] instead of      *)
(* returning a value.                                                      *)
C18_PastKnotsFails ==
    (PastKnots(op) /\ InDomain(<<op.args.t>>)) => op.kind \in Panics

(* C18 as amended: it fails for every t in [0, 1], except that             *)
(* basis(n + degree, 0, t) with t < 1 returns 0.                           *)
C18_PastKnotsFailsButLast ==
    (PastKnots(op) /\ InDomain(<<op.args.t>>))
        => IF LastKnotAbove(op)
           THEN op.kind = "ok" /\ op.val = Zero
           ELSE op.kind = "IndexOutOfBounds"

\* basis(3, 2, 0.5), the call of spline_basis_fail: both recursive calls
\* return and the read of knots[6] fails.
C18_Witness ==
    /\ op.name = "BSpline.basis"
    /\ <<op.args.i, op.args.d, op.args.t>> = <<3, 2, <<1, 2>>>>
    /\ op.kind = "IndexOutOfBounds"

----------------------------------------------------------------------------
(* Claims on the forward pass of an edge (SpecEdge).                       *)

(* C19: Edge.forward(t) returns spline.eval(t) plus the residual silu(t),  *)
(* and has no side effect beyond the spline memo: control points, knots,   *)
(* degree, start, end, layer and gradient are the same after the call as   *)
(* before, whether it returned or failed.                                  *)
C19_ForwardFrame ==
    \A n \in 1..Len(hist) :
        hist[n].name = "Edge.forward"
            => LET old == hist[n].pre[hist[n].args.e]
                   new == Post(n)[hist[n].args.e]
               IN  /\ WithMemo(new, old.spline.memo) = old
                   /\ hist[n].kind = "ok"
                         => hist[n].val =
                                RAdd(Vector_sum(WeightedBasis(old, hist[n].args.t)),
                                     silu(hist[n].args.t))

\* A call that wrote to the memo of an edge holding a gradient and returned
\* more than the value of the spline.
C19_Witness ==
    /\ IsCall(op, "Edge.forward")
    /\ op.pre[op.args.e].gradient # Vector_zeros(Len(edges[op.args.e].gradient))
    /\ edges[op.args.e].spline.memo # op.pre[op.args.e].spline.memo
    /\ op.val # Vector_sum(WeightedBasis(edges[op.args.e], op.args.t))

(* C20: Edge.forward_batch(inputs) returns a vector of the same length as  *)
(* inputs whose k-th entry equals Edge.forward(inputs[k]) for every k: the *)
(* order of the inputs is preserved.  It returns for every batch of        *)
(* parameters inside [0, 1].                                               *)
C20_ForwardBatchInOrder ==
    \A n \in 1..Len(hist) :
        hist[n].name = "Edge.forward_batch"
            => /\ InDomain(hist[n].args.inputs) => hist[n].kind = "ok"
               /\ hist[n].kind = "ok"
                     => /\ Len(hist[n].val) = Len(hist[n].args.inputs)
                        /\ \A k \in 1..Len(hist[n].args.inputs) :
                              hist[n].val[k] =
                                  Edge_forward(hist[n].pre[hist[n].args.e],
                                               hist[n].args.inputs[k]).val

\* A batch of three parameters whose first and last activations differ.
C20_Witness ==
    /\ IsCall(op, "Edge.forward_batch")
    /\ Len(op.val) = 3
    /\ op.val[1] # op.val[3]
    /\ op.val[1] = Edge_forward(op.pre[op.args.e], op.args.inputs[1]).val

----------------------------------------------------------------------------
(* Claims on the calls of a network at every level (SpecNet).              *)

ForwardCalls == {"Edge.forward", "Node.forward", "Layer.forward", "KAN.forward"}

\* Calls that write neither a gradient nor a control point.
ReadingCalls == ForwardCalls \cup {"Edge.forward_batch"}

(* C21: idempotence of forward.  Calling forward (Edge, Node, Layer or     *)
(* KAN) twice with identical inputs and no backward or update_weights      *)
(* between the two calls returns identical outputs: the memo entries the   *)
(* first call wrote do not change the result of the second.                *)
C21_ForwardIdempotent ==
    \A m \in 1..Len(hist) : \A n \in (m + 1)..Len(hist) :
        (/\ hist[m].name \in ForwardCalls
         /\ hist[n].name = hist[m].name
         /\ hist[n].args = hist[m].args
         /\ \A k \in (m + 1)..(n - 1) : hist[k].name \in ReadingCalls)
            => hist[n].kind = hist[m].kind /\ hist[n].val = hist[m].val

\* KAN.forward called twice in a row with one input: the first call filled
\* memos the second one read, and both returned the same prediction.
C21_Witness ==
    /\ Len(hist) >= 2
    /\ IsCall(op, "KAN.forward")
    /\ hist[Len(hist) - 1].name = "KAN.forward"
    /\ hist[Len(hist) - 1].args = op.args
    /\ hist[Len(hist) - 1].pre # op.pre
    /\ edges = op.pre
    /\ op.val = hist[Len(hist) - 1].val
    /\ op.val # Zero

----------------------------------------------------------------------------
(* C22: KAN::standard(n, m) builds exactly two layers, a hidden layer of m *)
(* nodes each with n incoming edges and a final layer of one node with m   *)
(* incoming edges, and every hidden-to-output connection is one shared     *)
(* edge: output.incoming[j] is the edge hidden[j].outgoing[0], so what a   *)
(* backward through the output node writes is read through the hidden      *)
(* node's outgoing reference.                                              *)
C22_StandardSharesEdges ==
    \A s \in StandardShapes :
        layers = KAN_standard(s[1], s[2])
            => /\ Len(layers) = 2
               /\ Len(layers[1]) = s[2]
               /\ \A j \in 1..Len(layers[1]) :
                      /\ Len(layers[1][j].incoming) = s[1]
                      /\ Len(layers[1][j].outgoing) = 1
               /\ Len(layers[2]) = 1
               /\ Len(layers[2][1].incoming) = s[2]
               /\ \A j \in 1..s[2] :
                      layers[2][1].incoming[j] = layers[1][j].outgoing[1]
               /\ (IsCall(op, "Node.backward") /\ Len(op.args.inputs) = s[2])
                      => \A j \in 1..s[2] :
                             edges[layers[1][j].outgoing[1]].gradient =
                                 Vector_mul(
                                     BasisVector(op.pre[layers[1][j].outgoing[1]],
                                                 op.args.inputs[j]),
                                     op.args.g)

\* KAN::standard(2, 2) after a backward through its output node at two
\* different inputs: the outgoing edges of the two hidden nodes hold two
\* different gradients, the first of them not zero.
C22_Witness ==
    /\ layers = KAN_standard(2, 2)
    /\ IsCall(op, "Node.backward")
    /\ op.args.l = 2
    /\ op.args.inputs[1] # op.args.inputs[2]
    /\ edges[layers[1][1].outgoing[1]].gradient
           # edges[layers[1][2].outgoing[1]].gradient
    /\ edges[layers[1][1].outgoing[1]].gradient # Vector_zeros(StandardSize)

(* C23: for every edge, in every state reached from Edge::new by forward, *)
(* forward_batch, backward and update_weights calls, made directly or      *)
(* through Node, Layer or KAN, gradient.length equals                      *)
(* spline.control_points.length.                                           *)
C23_GradientLength ==
    \A e \in 1..Len(edges) :
        Len(edges[e].gradient) = Len(edges[e].spline.control_points)

\* An update through the network that moved control points and reset the
\* gradient a backward had written.
C23_Witness ==
    /\ IsCall(op, "KAN.update_edges")
    /\ \E e \in 1..Len(edges) :
          /\ edges[e].spline.control_points # op.pre[e].spline.control_points
          /\ edges[e].gradient # op.pre[e].gradient
          /\ Len(edges[e].gradient) = StandardSize

UpdateCalls ==
    {"Edge.update_weights", "Node.update_weights", "Layer.update_weights",
     "KAN.update_edges"}

\* The edges update_weights is called on by a call: the incoming edges of
\* the nodes it walks.
NodeEdges(l, n) == Range(layers[l][n].incoming)

LayerEdges(l) == UNION {NodeEdges(l, n) : n \in 1..Len(layers[l])}

Updated(c) ==
    IF c.name = "Edge.update_weights" THEN {c.args.e}
    ELSE IF c.name = "Node.update_weights" THEN NodeEdges(c.args.l, c.args.n)
    ELSE IF c.name = "Layer.update_weights" THEN LayerEdges(c.args.l)
    ELSE IF c.name \in {"KAN.update_edges", "KAN.train"}
        THEN UNION {LayerEdges(l) : l \in 1..Len(layers)}
    ELSE {}

ControlPoints(arena) == [e \in DOMAIN arena |-> arena[e].spline.control_points]

(* C25: a second update_weights (or update_edges) with lr > 0 issued with  *)
(* no backward since the previous update leaves every control point        *)
(* unchanged, because the previous update reset the gradient to zero.  The *)
(* previous update is a successful update_weights or update_edges, or the  *)
(* update_edges of a successful train; the control points are those of the *)
(* edges both updates walk.                                                *)
C25_SecondUpdateChangesNothing ==
    \A m \in 1..Len(hist) : \A n \in (m + 1)..Len(hist) :
        (/\ hist[m].kind = "ok"
         /\ hist[n].kind = "ok"
         /\ hist[n].name \in UpdateCalls
         /\ RLt(Zero, hist[n].args.lr)
         /\ \A k \in (m + 1)..(n - 1) : hist[k].name \in ReadingCalls \cup UpdateCalls)
            => \A e \in Updated(hist[m]) \cap Updated(hist[n]) :
                   ControlPoints(Post(n))[e] = ControlPoints(hist[n].pre)[e]

\* update_edges right after a training step that moved control points.
C25_Witness ==
    /\ Len(hist) >= 2
    /\ IsCall(hist[Len(hist) - 1], "KAN.train")
    /\ ControlPoints(op.pre) # ControlPoints(hist[Len(hist) - 1].pre)
    /\ IsCall(op, "KAN.update_edges")
    /\ RLt(Zero, op.args.lr)
    /\ ControlPoints(edges) = ControlPoints(op.pre)

(* C26: in KAN.backward, layers are walked in reverse order and each       *)
(* layer's Layer.backward is called with layer_input equal to the cached   *)
(* forward output of the layer immediately before it; the first layer of   *)
(* the network is called with the original network input.                  *)
C26_BackwardLayerInputs ==
    \A n \in 1..Len(hist) :
        hist[n].name = "KAN.backward"
            => LET outputs == forward_loop(hist[n].pre, layers, hist[n].args.input,
                                           0, <<>>).outputs
               IN  \A k \in 1..Len(hist[n].calls) :
                       /\ hist[n].calls[k].layer = Len(layers) - k
                       /\ hist[n].calls[k].input =
                              IF hist[n].calls[k].layer = 0 THEN hist[n].args.input
                              ELSE At(outputs, hist[n].calls[k].layer - 1)

(* C27: in KAN.backward, the first upstream gradient is the one-entry      *)
(* vector [2 * (prediction - target)], and after each layer's backward the *)
(* upstream gradient handed to the next (earlier) layer has exactly one    *)
(* entry per node of that earlier layer, every entry being the sum of the  *)
(* current upstream-gradient entries.                                      *)
C27_UpstreamGradients ==
    \A n \in 1..Len(hist) :
        hist[n].name = "KAN.backward"
            => LET f == KAN_forward(hist[n].pre, layers, hist[n].args.input)
                   calls == hist[n].calls
               IN  /\ f.kind = "ok"
                         => /\ calls # <<>>
                            /\ calls[1].upstream =
                                   <<RMul(Two, RSub(f.val, hist[n].args.target))>>
                   /\ \A k \in 2..Len(calls) :
                          calls[k].upstream =
                              Vector_fill(Vector_sum(calls[k - 1].upstream),
                                          Len(At(layers, calls[k].layer)))

\* A backward pass over two layers whose first upstream gradient is not
\* zero: the earlier layer was handed a gradient derived from it.
C27_Witness ==
    /\ IsCall(op, "KAN.backward")
    /\ Len(op.calls) = 2
    /\ op.calls[1].upstream # <<Zero>>
    /\ Len(op.calls[2].upstream) = Len(layers[1])

BackwardCalls == {"Edge.backward", "Node.backward", "Layer.backward", "KAN.backward"}

\* The control points, the knots and the degree of every edge.
Splines(arena) ==
    [e \in DOMAIN arena |->
        <<arena[e].spline.control_points, arena[e].spline.knots,
          arena[e].spline.degree>>]

GradientsOf(arena) == [e \in DOMAIN arena |-> arena[e].gradient]

(* C30: backward passes change gradients only.  A successful               *)
(* Edge.backward, Node.backward, Layer.backward or KAN.backward leaves     *)
(* every control point, every knot vector and the network topology         *)
(* (layers, nodes, incoming and outgoing lists) unchanged, and             *)
(* KAN.forward, Layer.forward and Node.forward leave every gradient        *)
(* unchanged.                                                              *)
C30_BackwardAndForwardFrames ==
    /\ \E s \in NetShapes :
          /\ layers = Grid(s[1], s[2])
          /\ Len(edges) = Len(Grid_edges(s[1], s[2], 0))
    /\ \A n \in 1..Len(hist) :
          /\ (hist[n].name \in BackwardCalls /\ hist[n].kind = "ok")
                => Splines(Post(n)) = Splines(hist[n].pre)
          /\ hist[n].name \in {"KAN.forward", "Layer.forward", "Node.forward"}
                => GradientsOf(Post(n)) = GradientsOf(hist[n].pre)

\* A backward pass over two layers that wrote a gradient, on a network
\* whose control points an earlier call had moved.
C30_Witness ==
    /\ IsCall(op, "KAN.backward")
    /\ Len(op.calls) = 2
    /\ GradientsOf(edges) # GradientsOf(op.pre)
    /\ Splines(edges) = Splines(op.pre)
    /\ Splines(edges) # Splines(hist[1].pre)

----------------------------------------------------------------------------
(* Invariants of an edge and its spline (SpecMemo).                        *)

\* The arena as construction left it.
Constructed == IF hist = <<>> THEN edges ELSE hist[1].pre

(* C24: a spline built by BSpline::new with n control points and a given   *)
(* degree has knots.length == n + degree + 1 with knots[k] == k / (n +     *)
(* degree) for every k, and no operation (eval, basis, Edge.forward,       *)
(* Edge.backward, Edge.update_weights) ever changes the knots, the degree  *)
(* or the number of control points.                                        *)
C24_KnotsUniformAndFixed ==
    \A e \in 1..Len(edges) :
        LET spline == edges[e].spline
            n == Len(spline.control_points)
        IN  /\ Len(spline.knots) = n + spline.degree + 1
            /\ \A k \in 0..(n + spline.degree) :
                   At(spline.knots, k) = Rat(k, n + spline.degree)
            /\ spline.knots = Constructed[e].spline.knots
            /\ spline.degree = Constructed[e].spline.degree
            /\ n = Len(Constructed[e].spline.control_points)

\* An update that moved the control points of a spline of degree 2.
C24_Witness ==
    /\ IsCall(op, "Edge.update_weights")
    /\ edges[op.args.e].spline.degree = 2
    /\ edges[op.args.e].spline.control_points
           # Constructed[op.args.e].spline.control_points
    /\ edges[op.args.e].spline.knots = Constructed[op.args.e].spline.knots

(* C28: memo soundness.  In every state reached from a spline with an      *)
(* empty memo by eval, basis, Edge.forward, Edge.backward and              *)
(* Edge.update_weights calls, every memo entry keyed (i, d, t) has d >= 1  *)
(* and t in [0, 1], and its value is the un-memoized Cox-de Boor value of  *)
(* basis(i, d, t) on the spline's knots; changing control points by        *)
(* update_weights never invalidates an entry.                              *)
C28_MemoSound ==
    \A e \in 1..Len(edges) :
        \A key \in DOMAIN edges[e].spline.memo :
            /\ key[2] >= 1
            /\ InDomain(<<key[3]>>)
            /\ edges[e].spline.memo[key] =
                   CoxDeBoor(edges[e].spline.knots, key[1], key[2], key[3])

\* An update that moved control points under a memo a backward had filled,
\* with entries of degree 1 and 2 for control point 1.
C28_Witness ==
    /\ IsCall(op, "Edge.update_weights")
    /\ edges[op.args.e].spline.control_points
           # op.pre[op.args.e].spline.control_points
    /\ \E t \in Params :
          /\ hashmap_key(1, 2, t) \in DOMAIN edges[op.args.e].spline.memo
          /\ hashmap_key(1, 1, t) \in DOMAIN edges[op.args.e].spline.memo
          /\ edges[op.args.e].spline.memo[hashmap_key(1, 2, t)] # Zero

(* C29: for an edge with at least one control point, Edge.backward(t, g)   *)
(* with t outside [0, 1] fails before writing any gradient entry: the      *)
(* edge's gradient, control points and memo after the failed call are      *)
(* identical to those before it.                                           *)
C29_BackwardOutsideWritesNothing ==
    \A n \in 1..Len(hist) :
        (/\ hist[n].name = "Edge.backward"
         /\ RLt(hist[n].args.t, Zero) \/ RLt(One, hist[n].args.t))
            => /\ hist[n].kind \in Panics
               /\ Post(n)[hist[n].args.e] = hist[n].pre[hist[n].args.e]

\* A refused backward on an edge that holds the gradient and the memo of an
\* earlier backward.
C29_Witness ==
    /\ op.name = "Edge.backward"
    /\ RLt(op.args.t, Zero)
    /\ op.kind \in Panics
    /\ op.pre[op.args.e].gradient # Vector_zeros(Len(op.pre[op.args.e].gradient))
    /\ DOMAIN op.pre[op.args.e].spline.memo # {}
    /\ edges = op.pre

====
